---- MODULE Spec2Model ----
(***************************************************************************)
(* A model of src/src/components/InteractiveViz.js: the shot-chart         *)
(* component InteractiveViz(CONFIG), its filter state, its redraw() and    *)
(* the callbacks of its controls, of the histogram brush and of the zoom.  *)
(*                                                                         *)
(* Numbers.  A JavaScript number is a sequence: <<n>> is the number n and  *)
(* <<>> is NaN.  A value that is not an integer (a pixel position, an      *)
(* inverted brush bound) is an exact fraction <<num, den>> with den > 0;   *)
(* floating-point rounding is not modelled.  The histogram domain bound is *)
(* held in hundredths, the zoom factor in tenths.                          *)
(*                                                                         *)
(* Names.  Player and team names are natural numbers that stand for the    *)
(* strings in the order Array.prototype.sort() gives them.                 *)
(***************************************************************************)
EXTENDS Integers, Sequences, FiniteSets, TLC

(***************************************************************************)
(* Bounds of the model.                                                    *)
(***************************************************************************)
MaxRows == 2         \* rows of the raw dataset
MaxPixelSteps == 1   \* the brush pixels are the multiples of HW / MaxPixelSteps
MaxStack == 2        \* redraw frames the call stack holds before RangeError
MaxZooms == 1        \* zoom / pan gestures in a run

(***************************************************************************)
(* Program constants.                                                      *)
(***************************************************************************)
W == 1100
H == 560
HistH == 140
M == [top |-> 10, right |-> 10, bottom |-> 10, left |-> 10]
innerW == W - M.left - M.right
innerH == H - M.top - M.bottom
HM == [top |-> 10, right |-> 20, bottom |-> 26, left |-> 40]
HW == W - HM.left - HM.right
HH == HistH - HM.top - HM.bottom
InitialPlayers == 5
scaleExtent == <<8, 80>>      \* [0.8, 8], in tenths
FallbackXDom == <<-250, 250>>
FallbackYDom == <<-50, 470>>
FallbackHxMax == 35
DomainPad == 10
BinThresholds == 25
MadeFill == "#4a90e2"
MissedFill == "#e74c3c"

NaN == <<>>
Null == <<>>
Num(n) == <<n>>
IsFinite(v) == Len(v) = 1

Min2(a, b) == IF a <= b THEN a ELSE b
Max2(a, b) == IF a >= b THEN a ELSE b
SetMin(S) == CHOOSE m \in S : \A o \in S : m <= o
SetMax(S) == CHOOSE m \in S : \A o \in S : m >= o

(***************************************************************************)
(* Raw cells.  A cell of a raw row is <<tag, n>>:                          *)
(*   <<"num", n>>     the number n                                         *)
(*   <<"numstr", n>>  the string that spells the number n                  *)
(*   <<"bool", b>>    true (b = 1) or false (b = 0)                        *)
(*   <<"str", k>>     another string: 0 is "", 1 is "TRUE", 2 is "FALSE",  *)
(*                    3 is "abc", 4 is "true"                              *)
(*   <<"undef", 0>>   undefined (the column is absent)                     *)
(***************************************************************************)
StrEmpty == <<"str", 0>>
StrTRUE == <<"str", 1>>
StrFALSE == <<"str", 2>>
StrJunk == <<"str", 3>>
StrLowerTrue == <<"str", 4>>
Undefined == <<"undef", 0>>

\* The unary plus of JavaScript: +"" is 0, +"abc" and +undefined are NaN.
ToNumber(c) ==
    CASE c[1] = "num" -> Num(c[2])
      [] c[1] = "numstr" -> Num(c[2])
      [] c[1] = "bool" -> Num(c[2])
      [] c[1] = "str" -> IF c[2] = 0 THEN Num(0) ELSE NaN
      [] OTHER -> NaN

\* d[columns.made] ? 1 : 0
ToMadeMutant(c) ==
    IF \/ c[1] = "str" /\ c[2] # 0
       \/ c[1] = "numstr"
       \/ c[1] \in {"bool", "num"} /\ c[2] # 0
    THEN 1 ELSE 0

\* d[columns.made] === "TRUE" || d[columns.made] === true || +d[columns.made] === 1 ? 1 : 0
ToMade(c) ==
    IF c = StrTRUE \/ c = <<"bool", 1>> \/ ToNumber(c) = Num(1) THEN 1 ELSE 0

RawRow(p, t, m, d, x, y) ==
    [player |-> p, team |-> t, made |-> m, distance |-> d, x |-> x, y |-> y]

RawRows ==
    { RawRow(1, 1, StrTRUE, <<"numstr", 10>>, <<"numstr", -100>>, <<"numstr", 50>>),
      RawRow(2, 1, StrFALSE, <<"numstr", 23>>, <<"numstr", 0>>, <<"numstr", 200>>),
      RawRow(1, 2, <<"num", 1>>, <<"num", 30>>, <<"num", 150>>, <<"num", 300>>),
      RawRow(2, 2, <<"num", 0>>, StrJunk, <<"numstr", 40>>, <<"numstr", 120>>) }

Datasets == UNION { [1..n -> RawRows] : n \in 0..MaxRows }

\* Sample datasets: one whose farthest shot lies beyond the histogram
\* domain, one with an unparsable distance, one without any distance.
SampleDatasets ==
    { << RawRow(1, 1, StrTRUE, <<"numstr", 10>>, <<"numstr", -100>>, <<"numstr", 50>>),
         RawRow(2, 2, <<"num", 0>>, <<"num", 30>>, <<"num", 150>>, <<"num", 300>>) >>,
      << RawRow(1, 2, StrFALSE, <<"numstr", 23>>, <<"numstr", 0>>, <<"numstr", 200>>),
         RawRow(2, 2, <<"num", 1>>, StrJunk, <<"numstr", 40>>, <<"numstr", 120>>) >>,
      << RawRow(1, 1, <<"bool", 1>>, Undefined, <<"numstr", 40>>, <<"numstr", 120>>) >> }

\* Cells a row can hold in the column of the outcome, of the distance and
\* of the two coordinates.
MadeCells ==
    { StrTRUE, StrFALSE, StrEmpty, StrJunk, StrLowerTrue, Undefined,
      <<"bool", 1>>, <<"bool", 0>>, <<"num", 1>>, <<"num", 0>>, <<"num", 2>>,
      <<"numstr", 1>>, <<"numstr", 0>> }
DistCells ==
    { <<"numstr", 0>>, <<"numstr", 9>>, <<"numstr", 10>>, <<"numstr", 11>>,
      <<"numstr", 23>>, <<"num", 24>>, StrEmpty, StrJunk, Undefined }
XCells == { <<"numstr", 40>>, StrEmpty, StrJunk }
YCells == { <<"numstr", 120>>, StrEmpty }

\* The datasets of one row over these cells.
CellDatasets ==
    { << RawRow(1, 1, m, d, x, y) >> :
        m \in MadeCells, d \in DistCells, x \in XCells, y \in YCells }

NormalizeRow(d) ==
    [__x |-> ToNumber(d.x), __y |-> ToNumber(d.y), __made |-> ToMade(d.made),
     __player |-> d.player, __team |-> d.team, __dist |-> ToNumber(d.distance)]

Normalize(raw) == [i \in 1..Len(raw) |-> NormalizeRow(raw[i])]

(***************************************************************************)
(* Scales of the shot chart (lines 149-163).                               *)
(***************************************************************************)
FiniteOf(vals) == { v[1] : v \in { w \in vals : IsFinite(w) } }

\* d3.extent skips NaN; with no finite value it returns [undefined, undefined].
Extent(vals) ==
    IF FiniteOf(vals) = {} THEN Null
    ELSE <<SetMin(FiniteOf(vals)), SetMax(FiniteOf(vals))>>

XDomOf(dat) ==
    LET xExtent == Extent({ dat[i].__x : i \in DOMAIN dat })
    IN  IF xExtent = Null THEN FallbackXDom
        ELSE <<xExtent[1] - DomainPad, xExtent[2] + DomainPad>>

YDomOf(dat) ==
    LET yExtent == Extent({ dat[i].__y : i \in DOMAIN dat })
    IN  IF yExtent = Null THEN FallbackYDom
        ELSE <<Min2(FallbackYDom[1], yExtent[1] - DomainPad), yExtent[2] + DomainPad>>

\* x = scaleLinear().domain(xDom).range([0, innerW]), as an exact fraction.
XScale(v, dom) ==
    IF ~IsFinite(v) THEN NaN
    ELSE <<(v[1] - dom[1]) * innerW, dom[2] - dom[1]>>

\* y = scaleLinear().domain(yDom).range([innerH, 0]).
YScale(v, dom) ==
    IF ~IsFinite(v) THEN NaN
    ELSE <<(dom[2] - v[1]) * innerH, dom[2] - dom[1]>>

(***************************************************************************)
(* The histogram scale hx (lines 189-191).                                 *)
(***************************************************************************)
SeqOfDists(dat) == [i \in 1..Len(dat) |-> dat[i].__dist]
FiniteDists(dat) ==
    LET fin == SelectSeq(SeqOfDists(dat), IsFinite)
    IN  [i \in 1..Len(fin) |-> fin[i][1]]

\* d3.quantile(sorted, 0.99), in hundredths; Null when there is no value.
Quantile99(sorted) ==
    LET n == Len(sorted)
        i100 == 99 * (n - 1)
        i0 == i100 \div 100
    IN  IF n = 0 THEN Null
        ELSE IF n < 2 THEN Num(100 * sorted[1])
        ELSE Num(100 * sorted[i0 + 1]
                 + (sorted[i0 + 2] - sorted[i0 + 1]) * (i100 % 100))

\* The upper bound of hx.domain(), in hundredths: quantile || 35.
HxMaxOf(dat) ==
    LET q == Quantile99(SortSeq(FiniteDists(dat), LAMBDA a, b : a < b))
    IN  IF q = Null \/ q = Num(0) THEN 100 * FallbackHxMax ELSE q[1]

\* hx.invert(p) for a domain [0, hmax100 / 100] and a range [0, width].
HxInvert(p, hmax100, width) == <<p * hmax100, 100 * width>>

\* hx(v) for a fraction v; the pixel is a whole number whenever v is the
\* inverse of one.
Hx(v, hmax100, width) == ((v[1] \div hmax100) * (100 * width)) \div v[2]

\* Order on fractions with positive denominators.
FracLe(a, b) == IF a[2] = b[2] THEN a[1] <= b[1] ELSE a[1] * b[2] <= b[1] * a[2]
FracEq(a, b) == IF a[2] = b[2] THEN a[1] = b[1] ELSE a[1] * b[2] = b[1] * a[2]
\* A number <<n>> as a fraction.
AsFrac(v) == <<v[1], 1>>

(***************************************************************************)
(* The filters of redraw() (lines 199-210).  A record is named by its      *)
(* index in the normalized sequence data; filtered is a sequence of        *)
(* indices, in the order of data.  A comparison with NaN is false.         *)
(***************************************************************************)
NumLe(v, n) == IsFinite(v) /\ v[1] <= n
NumGt(v, n) == IsFinite(v) /\ v[1] > n

\* An empty selection is taken as "no filter".
PassSelectionMutant(d, sp, st) ==
    /\ (sp = {} \/ d.__player \in sp)
    /\ (st = {} \/ d.__team \in st)

\* selPlayers.includes(d.__player) && selTeams.includes(d.__team)
PassSelection(d, sp, st) == d.__player \in sp /\ d.__team \in st

PassMade(d, mf) ==
    /\ (mf = "Made" => d.__made = 1)
    /\ (mf = "Missed" => d.__made = 0)

\* The band 0-10 ends below 10.
PassBandMutant(d, df) ==
    /\ (df = "0-10" => IsFinite(d.__dist) /\ d.__dist[1] < 10)
    /\ (df = "10-23" => NumGt(d.__dist, 10) /\ NumLe(d.__dist, 23))
    /\ (df = "23+" => NumGt(d.__dist, 23))

PassBand(d, df) ==
    /\ (df = "0-10" => NumLe(d.__dist, 10))
    /\ (df = "10-23" => NumGt(d.__dist, 10) /\ NumLe(d.__dist, 23))
    /\ (df = "23+" => NumGt(d.__dist, 23))

\* d.__dist >= d0 && d.__dist <= d1, for a brushedExtent that is not null
PassBrushMutant(d, be) ==
    /\ IsFinite(d.__dist)
    /\ FracLe(be[1], AsFrac(d.__dist))
    /\ ~FracLe(be[2], AsFrac(d.__dist))

PassBrush(d, be) ==
    /\ IsFinite(d.__dist)
    /\ FracLe(be[1], AsFrac(d.__dist))
    /\ FracLe(AsFrac(d.__dist), be[2])

\* The band filter is skipped while a brush range is set.
FilteredMutant(dat, sp, st, mf, df, be) ==
    LET all == [i \in 1..Len(dat) |-> i]
        f0 == SelectSeq(all, LAMBDA i : PassSelection(dat[i], sp, st))
        f1 == SelectSeq(f0, LAMBDA i : PassMade(dat[i], mf))
        f2 == IF be = Null THEN SelectSeq(f1, LAMBDA i : PassBand(dat[i], df)) ELSE f1
    IN  IF be = Null THEN f2 ELSE SelectSeq(f2, LAMBDA i : PassBrush(dat[i], be))

Filtered(dat, sp, st, mf, df, be) ==
    LET all == [i \in 1..Len(dat) |-> i]
        f0 == SelectSeq(all, LAMBDA i : PassSelection(dat[i], sp, st))
        f1 == IF mf = "Made" THEN SelectSeq(f0, LAMBDA i : dat[i].__made = 1) ELSE f0
        f2 == IF mf = "Missed" THEN SelectSeq(f1, LAMBDA i : dat[i].__made = 0) ELSE f1
        f3 == IF df # "All" THEN SelectSeq(f2, LAMBDA i : PassBand(dat[i], df)) ELSE f2
    IN  IF be # Null THEN SelectSeq(f3, LAMBDA i : PassBrush(dat[i], be)) ELSE f3

(***************************************************************************)
(* The data join of the point layer (lines 213-239).  A circle is          *)
(* [id, datum, cx, cy, fill]: id is the identity of the DOM node, datum    *)
(* the record bound to it (__data__).  selection.data(filtered, key)       *)
(* computes key(d, i) for each circle from its bound datum and its index   *)
(* among the circles, and for each datum from its index in filtered; a     *)
(* circle and a datum with equal keys are joined (update), a datum without *)
(* a circle enters, a circle without a datum exits.  join() leaves the     *)
(* circles in the order of filtered.                                       *)
(***************************************************************************)
\* (d, i) => i
Key(d, i) == i

EnterCircle(id, d, dat, xd, yd) ==
    [id |-> id, datum |-> d,
     cx |-> XScale(dat[d].__x, xd), cy |-> YScale(dat[d].__y, yd),
     fill |-> IF dat[d].__made # 0 THEN MadeFill ELSE MissedFill]

\* update => update: the circle keeps its attributes, its datum is rebound.
UpdateCircle(c, d, dat, xd, yd) == [c EXCEPT !.datum = d]

\* The first circle whose key is k, or 0.
NodeByKey(circles, k) ==
    LET hits == { j \in 1..Len(circles) : Key(circles[j].datum, j) = k }
    IN  IF hits = {} THEN 0 ELSE SetMin(hits)

MaxId(circles) ==
    IF Len(circles) = 0 THEN 0 ELSE SetMax({ circles[j].id : j \in 1..Len(circles) })

\* Every datum gets a new circle, appended after the circles already there.
JoinMutant(circles, flt, dat, xd, yd) ==
    circles \o [i \in 1..Len(flt) |->
                   EnterCircle(MaxId(circles) + i, flt[i], dat, xd, yd)]

Join(circles, flt, dat, xd, yd) ==
    LET node(i) == NodeByKey(circles, Key(flt[i], i))
        entersBefore(i) == Cardinality({ j \in 1..i : node(j) = 0 })
    IN  [i \in 1..Len(flt) |->
            IF node(i) # 0
            THEN UpdateCircle(circles[node(i)], flt[i], dat, xd, yd)
            ELSE EnterCircle(MaxId(circles) + entersBefore(i), flt[i], dat, xd, yd)]

(***************************************************************************)
(* The histogram bars (lines 242-262): d3.bin().domain(hx.domain())        *)
(* .thresholds(25) over the finite distances.  Edges are in hundredths.    *)
(***************************************************************************)
\* The step of d3.ticks(0, hmax, 25), in hundredths: 1, 2 or 5 times a power
\* of ten, chosen by comparing hmax / 25 with sqrt(2), sqrt(10), sqrt(50).
TickStep(hmax100) ==
    LET sq == hmax100 * hmax100
        u == BinThresholds * BinThresholds
    IN  IF sq >= 500000 * u THEN 1000
        ELSE IF sq >= 100000 * u THEN 500
        ELSE IF sq >= 20000 * u THEN 200
        ELSE IF sq >= 5000 * u THEN 100
        ELSE IF sq >= 1000 * u THEN 50
        ELSE IF sq >= 200 * u THEN 20
        ELSE IF sq >= 50 * u THEN 10
        ELSE IF sq >= 10 * u THEN 5
        ELSE IF sq >= 2 * u THEN 2
        ELSE 1

\* const values = filtered.map(d => d.__dist).filter(Number.isFinite)
HistValuesMutant(dat, flt) ==
    LET fin == SelectSeq(flt, LAMBDA i : IsFinite(dat[i].__dist))
    IN  [i \in 1..Len(fin) |-> dat[fin[i]].__dist[1]]

\* const values = data.map(d => d.__dist).filter(Number.isFinite)
HistValues(dat, flt) == FiniteDists(dat)

\* The bins for thresholds step, 2 step, ..., m step over [0, hmax]: bin b
\* (from 0) is [b step, (b + 1) step), the last one [m step, hmax].  idx[i]
\* is the bin of the i-th value, or -1 for a value outside the domain.  The
\* bins are held as their number, their edges' step and domain, and the
\* length of every bin that is not empty.
BinsOf(step, m, idx, hmax100) ==
    [x0 |-> 0, x1 |-> hmax100, step |-> step, count |-> m + 1,
     lengths |-> [b \in { idx[i] : i \in DOMAIN idx } \ {-1} |->
                     Cardinality({ i \in DOMAIN idx : idx[i] = b })]]

\* The thresholds are the ticks inside (0, hmax); a value v in [0, hmax]
\* falls in bin min(m, floor(v / step)).
BinsStep(values, hmax100, step) ==
    LET m == IF hmax100 % step = 0 THEN (hmax100 \div step) - 1 ELSE hmax100 \div step
    IN  BinsOf(step, m,
               [i \in 1..Len(values) |->
                   IF 0 <= values[i] /\ 100 * values[i] <= hmax100
                   THEN Min2(m, (100 * values[i]) \div step) ELSE -1],
               hmax100)

Bins(values, hmax100) == BinsStep(values, hmax100, TickStep(hmax100))

\* d3.max(bins, b => b.length)
MaxLength(bs) ==
    IF DOMAIN bs.lengths = {} THEN 0
    ELSE SetMax({ bs.lengths[b] : b \in DOMAIN bs.lengths })

\* The step of d3.tickIncrement(0, v, 10) for an upper bound of v tenths
\* (1 <= v < 1000), in tenths: 1, 2, 5 or 10 times a power of ten.
NiceStep(v) ==
    LET sq == v * v
    IN  IF v < 100
        THEN IF sq >= 5000 THEN 10 ELSE IF sq >= 1000 THEN 5
             ELSE IF sq >= 200 THEN 2 ELSE 1
        ELSE IF sq >= 500000 THEN 100 ELSE IF sq >= 100000 THEN 50
             ELSE IF sq >= 20000 THEN 20 ELSE 10

\* The upper bound, in tenths, of scaleLinear().domain([0, v / 10]).nice():
\* the bound is rounded up to a multiple of the step until the step settles.
RECURSIVE NiceMax(_)
NiceMax(v) ==
    LET step == NiceStep(v)
        stop == ((v + step - 1) \div step) * step
    IN  IF NiceStep(stop) = step THEN stop ELSE NiceMax(stop)

\* The height attribute of a bar of length len, HH - hy(len), a fraction, for
\* hy = scaleLinear().domain([0, maxLen]).range([HH, 0]).nice().  A domain
\* [0, 0] is left as it is by nice() and maps every value to the middle of
\* the range.
BarHeight(len, maxLen) ==
    IF maxLen = 0 THEN <<HH, 2>>
    ELSE <<HH * len * 10, NiceMax(10 * maxLen)>>

(***************************************************************************)
(* The zoom behaviour (lines 174-182).  A transform is [k, x, y] with k in *)
(* tenths; a group without a transform attribute has the identity.         *)
(***************************************************************************)
Identity == [k |-> 10, x |-> 0, y |-> 0]

\* Pointer positions of a wheel gesture, in the coordinates of scatterSVG.
FocalPoints == { <<560, 240>> }
\* Scales a wheel gesture asks for, in tenths, before d3 clamps them.
RequestedScales == { 4, 20, 160 }
\* Pointer displacements of a drag gesture.
PanDeltas == { <<80, 0>> }

\* d3.zoom().scaleExtent([0.8, 8]) keeps the scale inside the extent.
ClampScale(k) == Max2(scaleExtent[1], Min2(scaleExtent[2], k))

\* translate(scale(t, k), p, t.invert(p)): the point under p stays under p.
ZoomAbout(t, p, k) ==
    [k |-> k,
     x |-> p[1] - ((p[1] - t.x) * k) \div t.k,
     y |-> p[2] - ((p[2] - t.y) * k) \div t.k]

PanBy(t, d) == [t EXCEPT !.x = @ + d[1], !.y = @ + d[2]]

\* Where a point of the layer dots appears in the coordinates of scatterSVG:
\* dots lies in g, which is translated by (M.left, M.top), and carries the
\* transform t; c is the cx (or cy) attribute, a fraction.
ScreenX(c, t) == <<10 * (M.left + t.x) * c[2] + t.k * c[1], 10 * c[2]>>
ScreenY(c, t) == <<10 * (M.top + t.y) * c[2] + t.k * c[1], 10 * c[2]>>

\* The coordinate in the layer dots of the point that appears at position s
\* of scatterSVG under the transform t.
LayerX(s, t) == <<10 * (s - M.left - t.x), t.k>>
LayerY(s, t) == <<10 * (s - M.top - t.y), t.k>>

(***************************************************************************)
(* The state of one chart instance.                                        *)
(***************************************************************************)
VARIABLES
    rawData,          \* CONFIG.data
    data,             \* the normalized records
    xDom, yDom,       \* the domains of the scales x and y
    hxMax,            \* the upper bound of hx.domain(), in hundredths
    selPlayers, selTeams, madeFilter, distFilter,
    brushedExtent,    \* Null or <<low, high>>, two fractions
    uiPlayers, uiTeams, uiMade, uiDist,   \* what the four <select>s show
    filtered,         \* the subset the last redraw pass computed
    dots,             \* the circles of the point layer, in DOM order
    bars,             \* the rect.bin elements' data
    brushSel,         \* the selection the brush shows, in pixels, or Null
    depth,            \* redraw frames on the call stack (0: no callback runs)
    lastError,        \* how the last callback ended
    zoomT,            \* the transform d3.zoom keeps on scatterSVG
    courtTransform,   \* the transform attribute of courtGroup
    dotsTransform,    \* the transform attribute of dots
    zooms             \* zoom gestures so far

dataVars == <<rawData, data, xDom, yDom, hxMax>>
filterVars == <<selPlayers, selTeams, madeFilter, distFilter, brushedExtent>>
uiVars == <<uiPlayers, uiTeams, uiMade, uiDist>>
viewVars == <<filtered, dots, bars>>
zoomVars == <<zoomT, courtTransform, dotsTransform, zooms>>
vars == <<dataVars, filterVars, uiVars, viewVars, brushSel, depth, lastError, zoomVars>>

allPlayers == { data[i].__player : i \in DOMAIN data }
allTeams == { data[i].__team : i \in DOMAIN data }
ResultOptions == { "All", "Made", "Missed" }
DistanceModes == { "All", "0-10", "10-23", "23+" }
BrushPixels == { (i * HW) \div MaxPixelSteps : i \in 0..MaxPixelSteps }

\* allPlayers.slice(0, Math.min(5, allPlayers.length))
FirstPlayers(all) ==
    { p \in all : Cardinality({ q \in all : q < p }) < InitialPlayers }

(***************************************************************************)
(* redraw() up to and including brushG.call(brush.move, ...) (lines        *)
(* 197-286), for the filter state (sp, st, mf, df, be) the callback has    *)
(* just assigned.  With a brush range set, brush.move shows the range and  *)
(* dispatches "brush" to the handler of the brush just installed, which    *)
(* calls redraw() again: the frame stays on the stack.                     *)
(***************************************************************************)
BrushMove(be) ==
    IF be = Null
    THEN /\ brushSel' = brushSel
         /\ depth' = 0
    ELSE /\ brushSel' = <<Hx(be[1], hxMax, HW), Hx(be[2], hxMax, HW)>>
         /\ depth' = depth + 1

redraw(sp, st, mf, df, be) ==
    /\ filtered' = Filtered(data, sp, st, mf, df, be)
    /\ dots' = Join(dots, filtered', data, xDom, yDom)
    /\ bars' = Bins(HistValues(data, filtered'), hxMax)
    /\ BrushMove(be)

\* The state after InteractiveViz(CONFIG) has returned, initial draw included.
Constructed ==
    /\ data = Normalize(rawData)
    /\ xDom = XDomOf(data)
    /\ yDom = YDomOf(data)
    /\ hxMax = HxMaxOf(data)
    /\ selPlayers = FirstPlayers(allPlayers)
    /\ selTeams = allTeams
    /\ madeFilter = "All"
    /\ distFilter = "All"
    /\ brushedExtent = Null
    /\ uiPlayers = {}
    /\ uiTeams = {}
    /\ uiMade = "All"
    /\ uiDist = "All"
    /\ filtered = Filtered(data, selPlayers, selTeams, madeFilter, distFilter, Null)
    /\ dots = Join(<<>>, filtered, data, xDom, yDom)
    /\ bars = Bins(HistValues(data, filtered), hxMax)
    /\ brushSel = Null
    /\ depth = 0
    /\ lastError = "none"
    /\ zoomT = Identity
    /\ courtTransform = Identity
    /\ dotsTransform = Identity
    /\ zooms = 0

(***************************************************************************)
(* The callbacks.  An input event is handled only when no callback runs.   *)
(***************************************************************************)
\* playerSelect's onchange: v => { selPlayers = v; redraw(); }
PlayerChange(chosen) ==
    /\ depth = 0
    /\ chosen # uiPlayers
    /\ uiPlayers' = chosen
    /\ selPlayers' = chosen
    /\ redraw(chosen, selTeams, madeFilter, distFilter, brushedExtent)
    /\ lastError' = "none"
    /\ UNCHANGED <<dataVars, selTeams, madeFilter, distFilter, brushedExtent,
                   uiTeams, uiMade, uiDist, zoomVars>>

\* teamSelect's onchange: v => { selTeams = v; redraw(); }
TeamChange(chosen) ==
    /\ depth = 0
    /\ chosen # uiTeams
    /\ uiTeams' = chosen
    /\ selTeams' = chosen
    /\ redraw(selPlayers, chosen, madeFilter, distFilter, brushedExtent)
    /\ lastError' = "none"
    /\ UNCHANGED <<dataVars, selPlayers, madeFilter, distFilter, brushedExtent,
                   uiPlayers, uiMade, uiDist, zoomVars>>

\* mmSelect's onchange: v => { madeFilter = v; redraw(); }
ResultChange(v) ==
    /\ depth = 0
    /\ v # uiMade
    /\ uiMade' = v
    /\ madeFilter' = v
    /\ redraw(selPlayers, selTeams, v, distFilter, brushedExtent)
    /\ lastError' = "none"
    /\ UNCHANGED <<dataVars, selPlayers, selTeams, distFilter, brushedExtent,
                   uiPlayers, uiTeams, uiDist, zoomVars>>

\* distMode's onchange: v => { distFilter = v; redraw(); }
DistModeChange(v) ==
    /\ depth = 0
    /\ v # uiDist
    /\ uiDist' = v
    /\ distFilter' = v
    /\ redraw(selPlayers, selTeams, madeFilter, v, brushedExtent)
    /\ lastError' = "none"
    /\ UNCHANGED <<dataVars, selPlayers, selTeams, madeFilter, brushedExtent,
                   uiPlayers, uiTeams, uiMade, zoomVars>>

\* The "brush end" handler for a selection that is an array [p0, p1].
OnBrush(p0, p1) ==
    /\ brushedExtent' = <<HxInvert(p0, hxMax, HW), HxInvert(p1, hxMax, HW)>>
    /\ redraw(selPlayers, selTeams, madeFilter, distFilter, brushedExtent')
    /\ UNCHANGED <<dataVars, selPlayers, selTeams, madeFilter, distFilter,
                   uiVars, zoomVars>>

\* A "brush" event of a drag (p0 <= p1; the two ends coincide when the
\* pointer is back where the drag began), or the "end" event of a drag that
\* leaves a selection.
BrushSelect(p0, p1) ==
    /\ depth = 0
    /\ p0 <= p1
    /\ OnBrush(p0, p1)
    /\ lastError' = "none"

\* The "end" event of a gesture that leaves no selection (a click on the
\* overlay, or a drag released with its ends together): selection is null.
BrushClear ==
    /\ depth = 0
    /\ brushedExtent' = Null
    /\ filtered' = Filtered(data, selPlayers, selTeams, madeFilter, distFilter, Null)
    /\ dots' = Join(dots, filtered', data, xDom, yDom)
    /\ bars' = Bins(HistValues(data, filtered'), hxMax)
    /\ brushSel' = Null
    /\ depth' = 0
    /\ lastError' = "none"
    /\ UNCHANGED <<dataVars, selPlayers, selTeams, madeFilter, distFilter,
                   uiVars, zoomVars>>

\* brush.move inside redraw() dispatches "brush" with the selection it has
\* just set: the handler runs again, below the frames already on the stack.
BrushMoveDispatch ==
    /\ depth >= 1
    /\ depth < MaxStack
    /\ OnBrush(brushSel[1], brushSel[2])
    /\ UNCHANGED lastError

\* The stack is full: the next call throws RangeError, which unwinds every
\* frame of the callback.
StackOverflow ==
    /\ depth = MaxStack
    /\ depth' = 0
    /\ lastError' = "RangeError"
    /\ UNCHANGED <<dataVars, filterVars, uiVars, viewVars, brushSel, zoomVars>>

\* Only the point layer gets the transform.
OnZoomMutant(t) ==
    /\ zoomT' = t
    /\ courtTransform' = courtTransform
    /\ dotsTransform' = t
    /\ zooms' = zooms + 1
    /\ UNCHANGED <<dataVars, filterVars, uiVars, viewVars, brushSel, depth, lastError>>

\* The "zoom" handler: both groups get event.transform.
OnZoom(t) ==
    /\ zoomT' = t
    /\ courtTransform' = t
    /\ dotsTransform' = t
    /\ zooms' = zooms + 1
    /\ UNCHANGED <<dataVars, filterVars, uiVars, viewVars, brushSel, depth, lastError>>

\* A wheel gesture at pointer p asking for scale k.
Wheel(p, k) ==
    /\ depth = 0
    /\ zooms < MaxZooms
    /\ ClampScale(k) # zoomT.k
    /\ OnZoom(ZoomAbout(zoomT, p, ClampScale(k)))

\* A drag gesture on the chart.
Pan(d) ==
    /\ depth = 0
    /\ zooms < MaxZooms
    /\ OnZoom(PanBy(zoomT, d))

\* The chart over one of the sample datasets, with every callback.
Init ==
    /\ rawData \in SampleDatasets
    /\ Constructed

Next ==
    \/ \E chosen \in SUBSET allPlayers : PlayerChange(chosen)
    \/ \E chosen \in SUBSET allTeams : TeamChange(chosen)
    \/ \E v \in ResultOptions : ResultChange(v)
    \/ \E v \in DistanceModes : DistModeChange(v)
    \/ \E p0, p1 \in BrushPixels : BrushSelect(p0, p1)
    \/ BrushClear
    \/ BrushMoveDispatch
    \/ StackOverflow
    \/ \E p \in FocalPoints, k \in RequestedScales : Wheel(p, k)
    \/ \E d \in PanDeltas : Pan(d)

Spec == Init /\ [][Next]_vars

\* The chart over every dataset of up to MaxRows rows, with the callbacks of
\* the controls and of the brush; the zoom, which reads and writes nothing
\* but the two transforms, is left at the identity.
InitAnyData ==
    /\ rawData \in Datasets
    /\ Constructed

NextFilters ==
    \/ \E chosen \in SUBSET allPlayers : PlayerChange(chosen)
    \/ \E chosen \in SUBSET allTeams : TeamChange(chosen)
    \/ \E v \in ResultOptions : ResultChange(v)
    \/ \E v \in DistanceModes : DistModeChange(v)
    \/ \E p0, p1 \in BrushPixels : BrushSelect(p0, p1)
    \/ BrushClear
    \/ BrushMoveDispatch
    \/ StackOverflow

SpecAnyData == InitAnyData /\ [][NextFilters]_vars

\* The chart over a row of any cells, with the callbacks of the two selects
\* that filter on the normalized outcome and distance.
InitAnyCells ==
    /\ rawData \in CellDatasets
    /\ Constructed

NextSelects ==
    \/ \E v \in ResultOptions : ResultChange(v)
    \/ \E v \in DistanceModes : DistModeChange(v)

SpecAnyCells == InitAnyCells /\ [][NextSelects]_vars

(***************************************************************************)
(* Properties.                                                             *)
(***************************************************************************)
Range(seq) == { seq[i] : i \in DOMAIN seq }
Records == DOMAIN data
Dist(i) == data[i].__dist

\* The subsets each criterion alone keeps of the full record set.
ByPlayers == { i \in Records : data[i].__player \in selPlayers }
ByTeams == { i \in Records : data[i].__team \in selTeams }
ByOutcome ==
    { i \in Records : \/ madeFilter = "All"
                      \/ madeFilter = "Made" /\ data[i].__made = 1
                      \/ madeFilter = "Missed" /\ data[i].__made = 0 }
ByBand ==
    { i \in Records : \/ distFilter = "All"
                      \/ distFilter = "0-10" /\ IsFinite(Dist(i)) /\ Dist(i)[1] <= 10
                      \/ distFilter = "10-23" /\ IsFinite(Dist(i))
                            /\ Dist(i)[1] > 10 /\ Dist(i)[1] <= 23
                      \/ distFilter = "23+" /\ IsFinite(Dist(i)) /\ Dist(i)[1] > 23 }
ByBrush ==
    { i \in Records : \/ brushedExtent = Null
                      \/ /\ IsFinite(Dist(i))
                         /\ brushedExtent[1][1] <= Dist(i)[1] * brushedExtent[1][2]
                         /\ Dist(i)[1] * brushedExtent[2][2] <= brushedExtent[2][1] }

\* C1: the visible subset redraw computes is the intersection of the subsets
\* that the player, team, outcome, band and brush criteria each keep of the
\* full record set (in the order of the records, none twice); a distance
\* band and a brush range that are both active both apply.
C1_VisibleIsIntersection ==
    /\ Range(filtered) = ByPlayers \cap ByTeams \cap ByOutcome \cap ByBand \cap ByBrush
    /\ \A i, j \in DOMAIN filtered : i < j => filtered[i] < filtered[j]

\* A band and a brush range are both active; one record is kept by every
\* criterion but the band, another by every criterion but the brush.
C1_Witness ==
    /\ depth = 0
    /\ distFilter # "All"
    /\ brushedExtent # Null
    /\ \E i \in (ByPlayers \cap ByTeams \cap ByOutcome \cap ByBrush) : i \notin ByBand
    /\ \E i \in (ByPlayers \cap ByTeams \cap ByOutcome \cap ByBand) : i \notin ByBrush

Ids(circles) == { circles[j].id : j \in DOMAIN circles }
\* The circle that stands for record r (the one r is bound to).
CircleOf(circles, r) ==
    circles[CHOOSE j \in DOMAIN circles : circles[j].datum = r]
FillOf(r) == IF data[r].__made = 1 THEN MadeFill ELSE MissedFill

\* C2: once a callback has completed, the point layer shows exactly the
\* visible subset: as many circles as visible records, and every circle
\* drawn at the position and in the made/missed colour of the record it
\* stands for.
C2_LayerShowsVisibleSubset ==
    depth = 0 =>
        /\ Len(dots) = Len(filtered)
        /\ \A i \in DOMAIN dots :
            /\ dots[i].datum = filtered[i]
            /\ dots[i].cx = XScale(data[filtered[i]].__x, xDom)
            /\ dots[i].cy = YScale(data[filtered[i]].__y, yDom)
            /\ dots[i].fill = FillOf(filtered[i])

\* C3: reconciliation is keyed by the record's index in the normalized
\* sequence: over any step, a record visible before and after keeps its
\* circle, a record that becomes visible gets a new circle in its own
\* colour, and the circle of a record that stops being visible is removed.
C3_KeyedByRecordIndex ==
    [][\A r \in Records :
          /\ (r \in Range(filtered) /\ r \in Range(filtered'))
                => CircleOf(dots', r).id = CircleOf(dots, r).id
          /\ (r \notin Range(filtered) /\ r \in Range(filtered'))
                => /\ CircleOf(dots', r).id \notin Ids(dots)
                   /\ CircleOf(dots', r).fill = FillOf(r)
          /\ (r \in Range(filtered) /\ r \notin Range(filtered'))
                => CircleOf(dots, r).id \notin Ids(dots')]_vars

\* C4: the histogram never changes after the initial draw: its domain is
\* the one fixed from the full dataset, its bars are the bins of the full
\* dataset's finite distances, and no step (filter change, brush, zoom)
\* changes the domain or a bar.
C4_HistogramFixed ==
    /\ [](/\ hxMax = HxMaxOf(data)
          /\ bars.x0 = 0 /\ bars.x1 = hxMax
          /\ \A b \in 0..(bars.count - 1) :
                LET lo == b * bars.step
                    hi == IF b + 1 < bars.count THEN (b + 1) * bars.step ELSE hxMax
                    last == b + 1 = bars.count
                    n == Cardinality({ i \in Records :
                            /\ IsFinite(Dist(i))
                            /\ lo <= 100 * Dist(i)[1]
                            /\ IF last THEN 100 * Dist(i)[1] <= hi
                                       ELSE 100 * Dist(i)[1] < hi })
                IN  IF b \in DOMAIN bars.lengths THEN bars.lengths[b] = n ELSE n = 0)
    /\ [][bars' = bars /\ hxMax' = hxMax]_vars

\* Filters, a brush range and a zoom are in effect, fewer records are
\* visible than the histogram counts, and a bar is not empty.
C4_Witness ==
    /\ depth = 0
    /\ brushedExtent # Null
    /\ zooms > 0
    /\ uiMade # "All"
    /\ uiPlayers # {}
    /\ DOMAIN bars.lengths # {}
    /\ Len(filtered) < Cardinality({ i \in Records : IsFinite(Dist(i)) })

\* C5: a brush event with no selection or with a zero-width selection
\* removes the range: the stored range is null whenever the brush shows no
\* selection or one whose ends coincide, never a zero-width range.
C5_ZeroWidthClearsRange ==
    /\ brushSel = Null => brushedExtent = Null
    /\ (brushSel # Null /\ brushSel[1] = brushSel[2]) => brushedExtent = Null
    /\ brushedExtent # Null => ~FracEq(brushedExtent[1], brushedExtent[2])

\* C6: every callback runs to completion: none ends with the call stack
\* exhausted by the redraw passes that the brush handler and brush.move
\* start in each other.
C6_CallbackReturns == lastError # "RangeError"

OthersPass == ByPlayers \cap ByTeams \cap ByOutcome \cap ByBand

\* C7: with no player selected, or no team selected, nothing is visible and
\* nothing is drawn, whatever the other criteria are.
C7_EmptySelectionShowsNothing ==
    (selPlayers = {} \/ selTeams = {}) => (filtered = <<>> /\ dots = <<>>)

\* Every option of the player select has been deselected; every other
\* criterion keeps every record.
C7_Witness ==
    /\ depth = 0
    /\ Len(data) > 0
    /\ selPlayers = {}
    /\ selTeams = allTeams
    /\ madeFilter = "All" /\ distFilter = "All" /\ brushedExtent = Null
    /\ filtered = <<>>

C9_BrushRangeInclusive ==
    /\ FracEq(HxInvert(0, 100 * FallbackHxMax, 1000), <<0, 1>>)
    /\ FracEq(HxInvert(500, 100 * FallbackHxMax, 1000), <<175, 10>>)
    /\ brushedExtent # Null =>
        /\ brushSel # Null
        /\ brushedExtent[1] = <<brushSel[1] * hxMax, 100 * HW>>
        /\ brushedExtent[2] = <<brushSel[2] * hxMax, 100 * HW>>
        /\ FracLe(brushedExtent[1], brushedExtent[2])
        /\ Range(filtered) =
              { i \in OthersPass :
                  /\ IsFinite(Dist(i))
                  /\ brushedExtent[1][1] <= Dist(i)[1] * brushedExtent[1][2]
                  /\ Dist(i)[1] * brushedExtent[2][2] <= brushedExtent[2][1] }

\* A selection of positive width is stored; a visible record lies exactly
\* on the upper bound, and the range keeps out a record the other criteria
\* keep.
C9_Witness ==
    /\ brushedExtent # Null
    /\ brushSel[1] < brushSel[2]
    /\ \E i \in Range(filtered) : FracEq(AsFrac(Dist(i)), brushedExtent[2])
    /\ \E i \in OthersPass : i \notin Range(filtered)

\* C10: the court layer and the point layer always have the same zoom
\* transform, its scale is within [0.8, 8], every circle is placed by the
\* domain scales alone (so it is drawn under the transform of its layer),
\* and no step changes the domains of x and y.
C10_LayersShareTransform ==
    /\ [](/\ courtTransform = dotsTransform
          /\ scaleExtent[1] <= dotsTransform.k /\ dotsTransform.k <= scaleExtent[2]
          /\ \A i \in DOMAIN dots :
                \E r \in Records : /\ dots[i].cx = XScale(data[r].__x, xDom)
                                   /\ dots[i].cy = YScale(data[r].__y, yDom)
          /\ xDom = XDomOf(data) /\ yDom = YDomOf(data))
    /\ [][xDom' = xDom /\ yDom' = yDom]_vars

\* A zoom clamped at the upper end of the extent, with a band and a brush
\* range in effect and circles on screen.
C10_Witness ==
    /\ depth = 0
    /\ zooms > 0
    /\ dotsTransform.k = scaleExtent[2]
    /\ dotsTransform # Identity
    /\ uiDist # "All"
    /\ brushedExtent # Null
    /\ Len(dots) >= 1


\* C11: a zoom of scale factor 2 about a focal point p doubles every data
\* point's on-screen offset from p (its position before the zoom being the
\* domain scale's output shifted by the margin), and the point of the layer
\* that was under p stays under p.
C11_ZoomDoublesOffset ==
    [][\A p \in FocalPoints : \A k \in RequestedScales :
          (Wheel(p, k) /\ dotsTransform'.k = 2 * dotsTransform.k) =>
              /\ \A r \in Records :
                    LET cx == XScale(data[r].__x, xDom)
                        cy == YScale(data[r].__y, yDom)
                        sx == ScreenX(cx, dotsTransform)
                        sy == ScreenY(cy, dotsTransform)
                    IN  (IsFinite(data[r].__x) /\ IsFinite(data[r].__y)) =>
                            /\ ScreenX(cx, dotsTransform')
                                  = <<2 * sx[1] - p[1] * sx[2], sx[2]>>
                            /\ ScreenY(cy, dotsTransform')
                                  = <<2 * sy[1] - p[2] * sy[2], sy[2]>>
              /\ FracEq(ScreenX(LayerX(p[1], dotsTransform), dotsTransform'),
                        <<p[1], 1>>)
              /\ FracEq(ScreenY(LayerY(p[2], dotsTransform), dotsTransform'),
                        <<p[2], 1>>)]_vars


\* The test each band makes, written from its thresholds.
InBand(v, band) ==
    \/ band = "All"
    \/ band = "0-10" /\ IsFinite(v) /\ v[1] <= 10
    \/ band = "10-23" /\ IsFinite(v) /\ 10 < v[1] /\ v[1] <= 23
    \/ band = "23+" /\ IsFinite(v) /\ 23 < v[1]
Bands == DistanceModes \ {"All"}

\* C12: the bands partition the finite distances at the thresholds 10 and
\* 23: a record passes Near iff distance <= 10, Mid iff 10 < distance <= 23,
\* Far iff distance > 23, so a finite distance passes exactly one band, and
\* All passes every record; the visible records are the records the other
\* criteria keep that pass the selected band.
C12_BandsPartition ==
    /\ \A i \in Records :
          /\ \A band \in DistanceModes : PassBand(data[i], band) <=> InBand(Dist(i), band)
          /\ IsFinite(Dist(i)) =>
                Cardinality({ band \in Bands : PassBand(data[i], band) }) = 1
    /\ brushedExtent = Null =>
          Range(filtered) = { i \in ByPlayers \cap ByTeams \cap ByOutcome :
                                InBand(Dist(i), distFilter) }

\* The band Near is selected and shows a record whose distance is exactly 10.
C12_Witness ==
    /\ distFilter = "0-10"
    /\ \E i \in Range(filtered) : Dist(i) = Num(10)


\* The raw values that stand for a made shot: "TRUE", true, 1 and "1".
MadeValues == { StrTRUE, <<"bool", 1>>, <<"num", 1>>, <<"numstr", 1>> }

\* C13: a record is made iff the raw value of the outcome column is the
\* string "TRUE", the boolean true, or 1 as a number or as a string; every
\* other value ("FALSE", "true", 0, 2, "", undefined, false) is not made,
\* and the outcome filter keeps the records accordingly.
C13_MadeCoercion ==
    /\ \A i \in DOMAIN rawData :
          data[i].__made = IF rawData[i].made \in MadeValues THEN 1 ELSE 0
    /\ (brushedExtent = Null /\ madeFilter = "Made") =>
          Range(filtered) = { i \in ByPlayers \cap ByTeams \cap ByBand :
                                rawData[i].made \in MadeValues }
    /\ (brushedExtent = Null /\ madeFilter = "Missed") =>
          Range(filtered) = { i \in ByPlayers \cap ByTeams \cap ByBand :
                                rawData[i].made \notin MadeValues }

\* The outcome filter is Missed and shows a record whose raw value is the
\* string "FALSE".
C13_Witness ==
    /\ madeFilter = "Missed"
    /\ \E i \in Range(filtered) : rawData[i].made = StrFALSE


\* The raw values of a numeric column that are empty or spell no number.
NoNumber == { StrEmpty, StrJunk, StrLowerTrue, Undefined }

\* C14: normalization keeps every row in its place (same length, same
\* order), and a numeric field (x, y, distance) whose raw value is empty or
\* unparsable becomes NaN, so that no bar of the histogram counts a row
\* whose distance is empty or unparsable.
C14_NormalizeKeepsRows ==
    /\ Len(data) = Len(rawData)
    /\ \A i \in DOMAIN rawData :
          /\ data[i].__player = rawData[i].player
          /\ data[i].__team = rawData[i].team
          /\ rawData[i].x \in NoNumber => data[i].__x = NaN
          /\ rawData[i].y \in NoNumber => data[i].__y = NaN
          /\ rawData[i].distance \in NoNumber => data[i].__dist = NaN
    /\ \A b \in DOMAIN bars.lengths :
          LET lo == b * bars.step
              last == b + 1 = bars.count
          IN  bars.lengths[b] =
                Cardinality({ i \in DOMAIN rawData :
                    /\ rawData[i].distance \notin NoNumber
                    /\ IsFinite(Dist(i))
                    /\ lo <= 100 * Dist(i)[1]
                    /\ IF last THEN 100 * Dist(i)[1] <= hxMax
                               ELSE 100 * Dist(i)[1] < lo + bars.step })


\* The length of bar b of the histogram (the bars without an entry are empty).
LengthOf(b) == IF b \in DOMAIN bars.lengths THEN bars.lengths[b] ELSE 0

\* C15: with an empty dataset the scales have their fallback domains and
\* every bar of the histogram has height zero; with an empty dataset or an
\* empty visible subset the point layer has no circle and the redraw that
\* drew it has completed without error.
C15_EmptyDrawsNothing ==
    /\ Len(data) = 0 =>
          /\ xDom = FallbackXDom
          /\ yDom = FallbackYDom
          /\ hxMax = 100 * FallbackHxMax
          /\ \A b \in 0..(bars.count - 1) :
                BarHeight(LengthOf(b), MaxLength(bars))[1] = 0
    /\ (Len(data) = 0 \/ filtered = <<>>) =>
          /\ dots = <<>>
          /\ brushedExtent = Null => lastError = "none"


\* C16: in every state, the initial one included, the filter state is what
\* the controls show: the selected players and teams are the options
\* selected in the two multi-selects, the outcome and the band are the
\* options selected in their selects.
C16_FilterStateMatchesControls ==
    /\ selPlayers = uiPlayers
    /\ selTeams = uiTeams
    /\ madeFilter = uiMade
    /\ distFilter = uiDist

====
